---- MODULE Spec2Model ----
(***************************************************************************)
(* The module registry of loggo (src/module.go): a tree of named logger    *)
(* states keyed by dotted names, with lazily created ancestors and levels  *)
(* inherited from parent to child.                                         *)
(*                                                                         *)
(* A name is a sequence of one-character strings, so that lowercasing,     *)
(* the search for the last dot and slicing are computed as the code        *)
(* computes them.  A logger state is identified by its position in `heap`  *)
(* (the order of allocation); a pointer is such a position, 0 is nil.      *)
(***************************************************************************)
EXTENDS Integers, Sequences, FiniteSets, TLC

\* ------------------------------------------------------------- levels ----
\* The Level type is declared outside src/; the values follow the uses in
\* src/writer.go (CRITICAL is the start of a minimum search, INFO "or below"
\* goes to stdout) and UNSPECIFIED is the zero value that a zero-initialized
\* registry holds (src/module.go:58).
UNSPECIFIED == 0
TRACE == 1
DEBUG == 2
INFO == 3
WARNING == 4
ERROR == 5
CRITICAL == 6

Levels == {UNSPECIFIED, TRACE, DEBUG, INFO, WARNING, ERROR, CRITICAL}

\* Package defaults, declared outside src/: the comment of resetLevels
\* (src/module.go:126-127) gives their values.
defaultRootLevel == WARNING
defaultLevel == UNSPECIFIED

\* ------------------------------------------------------------- bounds ----
\* The registry never holds more than MaxNodes logger states.
MaxNodes == 4

\* ------------------------------------------------------------- names -----
rootName == <<"<", "r", "o", "o", "t", ">">>
rootModuleName == <<>>

Dot == "."

\* strings.ToLower on one character.
LowerChar(c) ==
    CASE c = "A" -> "a"
      [] c = "B" -> "b"
      [] c = "C" -> "c"
      [] c = "R" -> "r"
      [] c = "O" -> "o"
      [] c = "T" -> "t"
      [] OTHER -> c

\* strings.ToLower
ToLower(s) == [i \in 1..Len(s) |-> LowerChar(s[i])]

\* LastIndex written as strings.Index: the first dot instead of the last.
LastIndex_First(s) ==
    LET dots == {i \in 1..Len(s) : s[i] = "."}
    IN IF dots = {} THEN -1
       ELSE (CHOOSE i \in dots : \A j \in dots : i <= j) - 1

\* strings.LastIndex(s, "."): the 0-based index of the last dot, -1 if none.
LastIndex(s) ==
    LET dots == {i \in 1..Len(s) : s[i] = Dot}
    IN IF dots = {} THEN -1
       ELSE (CHOOSE i \in dots : \A j \in dots : j <= i) - 1

\* The names callers pass to get.
NameInputs ==
    { <<>>,
      rootName,
      <<"<", "R", "o", "o", "t", ">">>,
      <<"a">>,
      <<"a", ".", "b">>,
      <<"A", ".", "B">>,
      <<"a", ".", "b", ".", "c">>,
      <<"<", "r", "o", "o", "t", ">", ".", "a">> }

\* The levels callers pass to SetLogLevel and to newModules.
LevelInputs == {UNSPECIFIED, DEBUG, WARNING}
RootLevelInputs == {UNSPECIFIED, ERROR}

\* -------------------------------------------------------------- state ----
VARIABLES
    rootLevel,      \* modules.rootLevel
    regDefault,     \* modules.defaultLevel
    all,            \* modules.all: key -> pointer (empty while the map is nil)
    mapId,          \* identity of the map in modules.all: 0 is nil
    heap,           \* the logger states allocated so far, in order
    cfg,            \* the LoggersConfig last returned by config, as the caller holds it
    hasCfg,         \* whether config has returned yet
    last            \* the last call and what it returned

vars == <<rootLevel, regDefault, all, mapId, heap, cfg, hasCfg, last>>

\* The writers of src/writer.go, which the registry calls never touch.
VARIABLES
    tee,            \* the TeeWriter built last: combinedMinLevel and writers
    wout,           \* the last write: the call, its record, what each sink received
    writers         \* the registered writers, in the order of their registration

wvars == <<tee, wout, writers>>

\* The callers of the registry: the mutex and each thread's call in progress.
VARIABLES
    mu,             \* m.mu: 0 when free, else the thread that holds it
    thr             \* per thread: its call, its position, its frames, its result

cvars == <<mu, thr>>

\* The name under which the default writer is registered.
defaultWriterName == "default"

\* The writers registered when the package is loaded.
DefaultWriters == <<[name |-> defaultWriterName, sink |-> "os.Stderr", minLevel |-> TRACE]>>

EmptyMap == [k \in {} |-> 0]

\* ----------------------------------------------------- logger states -----
newRootModule ==
    [name |-> rootName, level |-> defaultRootLevel,
     defaultLevel |-> defaultRootLevel, parent |-> 0]

\* newSubmodule without the parent field in the literal.
newSubmodule_NoParent(name, parent, level) ==
    [name |-> ToLower(name), level |-> level,
     defaultLevel |-> UNSPECIFIED, parent |-> 0]

\* newSubmodule with the level of newRootModule instead of its argument.
newSubmodule_RootLevel(name, parent, level) ==
    [name |-> ToLower(name), level |-> defaultRootLevel,
     defaultLevel |-> UNSPECIFIED, parent |-> parent]

newSubmodule(name, parent, level) ==
    [name |-> ToLower(name), level |-> level,
     defaultLevel |-> UNSPECIFIED, parent |-> parent]

\* ---------------------------------------------------------- registry -----
\* A registry value: the fields of modules and the heap they point into.
Reg(rl, dl, a, mid, h) ==
    [rootLevel |-> rl, defaultLevel |-> dl, all |-> a, mapId |-> mid, heap |-> h]

CurReg == Reg(rootLevel, regDefault, all, mapId, heap)

\* initUnlocked without the replacement of an UNSPECIFIED root level.
initUnlocked_KeepUnspecified(m) ==
    LET dl == IF m.defaultLevel = UNSPECIFIED THEN defaultLevel ELSE m.defaultLevel
        root == [newRootModule EXCEPT !.level = m.rootLevel]
        ptr == Len(m.heap) + 1
    IN Reg(m.rootLevel, dl, (<<>> :> ptr), m.mapId + 1, Append(m.heap, root))

initUnlocked(m) ==
    LET rl == IF m.rootLevel = UNSPECIFIED THEN defaultRootLevel ELSE m.rootLevel
        dl == IF m.defaultLevel = UNSPECIFIED THEN defaultLevel ELSE m.defaultLevel
        root == [newRootModule EXCEPT !.level = rl]
        ptr == Len(m.heap) + 1
    IN Reg(rl, dl, (rootModuleName :> ptr), m.mapId + 1, Append(m.heap, root))

maybeInitUnlocked(m) ==
    IF m.mapId = 0 THEN initUnlocked(m) ELSE m

newModules(rl) ==
    initUnlocked(Reg(rl, defaultLevel, EmptyMap, 0, <<>>))

\* The zero value of the modules struct.
ZeroModules == Reg(UNSPECIFIED, UNSPECIFIED, EmptyMap, 0, <<>>)

\* resolveUnlocked returns the registry after the call and the pointer found
\* or created.
RECURSIVE resolveUnlocked(_, _)
resolveUnlocked(m, name0) ==
    LET name == IF name0 = rootName THEN rootModuleName ELSE name0
    IN IF name \in DOMAIN m.all
       THEN [m |-> m, impl |-> m.all[name]]
       ELSE LET i == LastIndex(name)
                parentName == IF i >= 0 THEN SubSeq(name, 1, i) ELSE rootModuleName
                p == resolveUnlocked(m, parentName)
                impl == Len(p.m.heap) + 1
                node == newSubmodule(name, p.impl, p.m.defaultLevel)
            IN [m |-> [p.m EXCEPT !.all = (name :> impl) @@ p.m.all,
                                  !.heap = Append(p.m.heap, node)],
                impl |-> impl]

\* get without the lowercasing of the name.
get_NoLower(m, name) ==
    resolveUnlocked(maybeInitUnlocked(m), name)

get(m, name) ==
    resolveUnlocked(maybeInitUnlocked(m), ToLower(name))

\* ------------------------------------------------- per-logger calls -----
\* loggerState.MinLogLevel: the logger's own level.
MinLogLevel(h, ptr) == h[ptr].level

\* loggerState.SetLogLevel: stores the level; the root cannot be
\* UNSPECIFIED and falls back to the default level it was built with.
SetLogLevel(h, ptr, level) ==
    LET node == h[ptr]
        lv == IF level = UNSPECIFIED /\ node.name = rootName
              THEN node.defaultLevel
              ELSE level
    IN [h EXCEPT ![ptr].level = lv]

\* The result of following a nil parent.
Panic == -1

\* loggerState.EffectiveLogLevel: the first specified level from the logger
\* up through its parents.
RECURSIVE EffectiveLogLevel(_, _)
EffectiveLogLevel(h, ptr) ==
    IF ptr = 0 THEN Panic
    ELSE IF h[ptr].level # UNSPECIFIED THEN h[ptr].level
    ELSE EffectiveLogLevel(h, h[ptr].parent)

\* ------------------------------------------------- registry calls --------
Range(f) == {f[k] : k \in DOMAIN f}

\* config returns the registry after the call and the LoggersConfig built.
\* Each entry is stored under the module's name field; the loop visits the
\* map in no fixed order, so two modules of one name would leave either one.
\* config without the skip of UNSPECIFIED modules.
config_NoSkip(m) ==
    LET mi == maybeInitUnlocked(m)
        kept == Range(mi.all)
        names == {mi.heap[p].name : p \in kept}
        written(n) == {mi.heap[p].level : p \in {q \in kept : mi.heap[q].name = n}}
    IN [m |-> mi,
        cfgs |-> {c \in [names -> Levels] : \A n \in names : c[n] \in written(n)}]

config(m) ==
    LET mi == maybeInitUnlocked(m)
        kept == {p \in Range(mi.all) : MinLogLevel(mi.heap, p) # UNSPECIFIED}
        names == {mi.heap[p].name : p \in kept}
        written(n) == {mi.heap[p].level : p \in {q \in kept : mi.heap[q].name = n}}
    IN [m |-> mi,
        cfgs |-> IF \A n \in names : Cardinality(written(n)) = 1
                 THEN {[n \in names |-> CHOOSE l \in written(n) : TRUE]}
                 ELSE {c \in [names -> Levels] : \A n \in names : c[n] \in written(n)}]

\* resetLevels that sets every module to the root level.
resetLevels_AllRoot(m) ==
    [m EXCEPT !.heap = [p \in DOMAIN m.heap |->
                           IF p \in Range(m.all)
                           THEN [m.heap[p] EXCEPT !.level = m.rootLevel]
                           ELSE m.heap[p]]]

\* resetLevels that tests the key against rootName, which is no key.
resetLevels_RootByName(m) ==
    LET keyOf(p) == CHOOSE k \in DOMAIN m.all : m.all[k] = p
        lv(p) == IF keyOf(p) = rootName THEN m.rootLevel ELSE m.defaultLevel
    IN [m EXCEPT !.heap = [p \in DOMAIN m.heap |->
                              IF p \in Range(m.all)
                              THEN [m.heap[p] EXCEPT !.level = lv(p)]
                              ELSE m.heap[p]]]

resetLevels(m) ==
    LET keyOf(p) == CHOOSE k \in DOMAIN m.all : m.all[k] = p
        lv(p) == IF keyOf(p) = rootModuleName THEN m.rootLevel ELSE m.defaultLevel
    IN [m EXCEPT !.heap = [p \in DOMAIN m.heap |->
                              IF p \in Range(m.all)
                              THEN [m.heap[p] EXCEPT !.level = lv(p)]
                              ELSE m.heap[p]]]

\* -------------------------------------------------------- behaviour ------
Init ==
    /\ \E m \in {ZeroModules} \cup {newModules(rl) : rl \in RootLevelInputs} :
          /\ rootLevel = m.rootLevel
          /\ regDefault = m.defaultLevel
          /\ all = m.all
          /\ mapId = m.mapId
          /\ heap = m.heap
    /\ cfg = EmptyMap
    /\ hasCfg = FALSE
    /\ last = [op |-> "none"]

Store(m) ==
    /\ rootLevel' = m.rootLevel
    /\ regDefault' = m.defaultLevel
    /\ all' = m.all
    /\ mapId' = m.mapId
    /\ heap' = m.heap

\* modules.get(name)
Get(name) ==
    LET r == get(CurReg, name)
    IN /\ Len(r.m.heap) <= MaxNodes
       /\ Store(r.m)
       /\ last' = [op |-> "get", name |-> name, impl |-> r.impl]
       /\ UNCHANGED <<cfg, hasCfg>>

\* SetLogLevel(level) on a logger state handed out earlier.
SetLevel(ptr, level) ==
    /\ ptr \in DOMAIN heap
    /\ heap' = SetLogLevel(heap, ptr, level)
    /\ last' = [op |-> "setLevel", ptr |-> ptr, level |-> level]
    /\ UNCHANGED <<rootLevel, regDefault, all, mapId, cfg, hasCfg>>

\* modules.config()
Config ==
    LET r == config(CurReg)
    IN /\ Len(r.m.heap) <= MaxNodes
       /\ Store(r.m)
       /\ \E c \in r.cfgs : last' = [op |-> "config", cfg |-> c]
       /\ UNCHANGED <<cfg, hasCfg>>

\* modules.resetLevels()
ResetLevels ==
    /\ Store(resetLevels(CurReg))
    /\ last' = [op |-> "resetLevels"]
    /\ UNCHANGED <<cfg, hasCfg>>

\* The caller keeps the LoggersConfig that config has just returned.
KeepCfg ==
    /\ last.op = "config"
    /\ cfg' = last.cfg
    /\ hasCfg' = TRUE
    /\ UNCHANGED <<rootLevel, regDefault, all, mapId, heap, last>>

\* The caller deletes an entry of the LoggersConfig it keeps.
MutateCfg(n) ==
    /\ hasCfg
    /\ n \in DOMAIN cfg
    /\ cfg' = [k \in DOMAIN cfg \ {n} |-> cfg[k]]
    /\ UNCHANGED <<rootLevel, regDefault, all, mapId, heap, hasCfg, last>>

\* No writer has been built or written to.
WritersIdle ==
    /\ tee = [combinedMinLevel |-> UNSPECIFIED, writers |-> <<>>]
    /\ wout = [op |-> "none"]
    /\ writers = DefaultWriters

MaxThreads == 2

Threads == 1..MaxThreads

\* A thread outside every call.  m0 is the registry its call found when it
\* took the mutex.
IdleThread ==
    [pc |-> "idle", op |-> "none", arg |-> <<>>, stack |-> <<>>, ret |-> 0,
     m0 |-> ZeroModules]

\* No thread is in a call and the mutex is free.
ThreadsIdle ==
    /\ mu = 0
    /\ thr = [t \in Threads |-> IdleThread]

Next ==
    \/ \E name \in NameInputs : Get(name) /\ UNCHANGED <<wvars, cvars>>
    \/ \E ptr \in 1..MaxNodes, level \in LevelInputs :
          SetLevel(ptr, level) /\ UNCHANGED <<wvars, cvars>>
    \/ Config /\ UNCHANGED <<wvars, cvars>>
    \/ ResetLevels /\ UNCHANGED <<wvars, cvars>>

InitSpec == Init /\ WritersIdle /\ ThreadsIdle

Spec == InitSpec /\ [][Next]_<<vars, wvars, cvars>>

\* The names of the second specification, in which callers also keep and
\* change the configurations they are given.
CfgNameInputs == { <<"a">>, <<"A", ".", "b">> }

NextCfg ==
    \/ \E name \in CfgNameInputs : Get(name) /\ UNCHANGED <<wvars, cvars>>
    \/ \E ptr \in 1..MaxNodes, level \in LevelInputs :
          SetLevel(ptr, level) /\ UNCHANGED <<wvars, cvars>>
    \/ Config /\ UNCHANGED <<wvars, cvars>>
    \/ ResetLevels /\ UNCHANGED <<wvars, cvars>>
    \/ KeepCfg /\ UNCHANGED <<wvars, cvars>>
    \/ \E n \in DOMAIN cfg : MutateCfg(n) /\ UNCHANGED <<wvars, cvars>>

SpecCfg == InitSpec /\ [][NextCfg]_<<vars, wvars, cvars>>

\* ------------------------------------------------------------ writers ----
\* The sinks a TeeWriter is built from hold at most MaxSinks writers.
MaxSinks == 2

Messages == {"m", "n"}

\* A Record, as far as the writers of src/writer.go read it.
Records == [Level : Levels, Message : Messages]

\* IsLevelEnabled: the floor is UNSPECIFIED or the level is at least as
\* severe as the floor.
IsLevelEnabled(minLevel, level) ==
    minLevel = UNSPECIFIED \/ level >= minLevel

\* A writer handed to NewTeeWriter is a minLevelWriter around a sink that
\* keeps what it is given, or such a sink alone, which has no MinLogLevel.
MinLevelSink(f) == [kind |-> "minLevel", level |-> f]
OpaqueSink == [kind |-> "opaque", level |-> UNSPECIFIED]

\* The floors of the writers handed to NewTeeWriter.
FloorInputs == {UNSPECIFIED, DEBUG, INFO, WARNING, CRITICAL}

SinkInputs == {MinLevelSink(f) : f \in FloorInputs} \cup {OpaqueSink}

WriterLists == UNION {[1..n -> SinkInputs] : n \in 0..MaxSinks}

\* minLevelWriter.MinLogLevel
WriterMinLogLevel(w) == w.level

\* WriteRecord without the return of the disabled case.
MinLevelWriteRecord_NoReturn(w, rec) == <<rec>>

\* minLevelWriter.WriteRecord: the records that reach the wrapped writer.
MinLevelWriteRecord(w, rec) ==
    IF ~IsLevelEnabled(WriterMinLogLevel(w), rec.Level) THEN <<>> ELSE <<rec>>

\* What the sink behind a writer of a TeeWriter receives when the writer is
\* written to.
SinkWrite(w, rec) ==
    IF w.kind = "minLevel" THEN MinLevelWriteRecord(w, rec) ELSE <<rec>>

\* The loop of NewTeeWriter from writer i on, with the level combined so far.
RECURSIVE CombineFrom(_, _, _)
CombineFrom(ws, i, combinedLevel) ==
    IF i > Len(ws) THEN combinedLevel
    ELSE IF ws[i].kind # "minLevel" THEN UNSPECIFIED
    ELSE LET minLevel == WriterMinLogLevel(ws[i])
         IN CombineFrom(ws, i + 1,
                        IF minLevel < combinedLevel THEN minLevel ELSE combinedLevel)

\* The loop of NewTeeWriter with > for <.
RECURSIVE CombineFrom_Greater(_, _, _)
CombineFrom_Greater(ws, i, combinedLevel) ==
    IF i > Len(ws) THEN combinedLevel
    ELSE IF ws[i].kind # "minLevel" THEN UNSPECIFIED
    ELSE CombineFrom_Greater(ws, i + 1,
                             IF ws[i].level > combinedLevel THEN ws[i].level
                             ELSE combinedLevel)

NewTeeWriter_Greater(ws) ==
    [combinedMinLevel |-> IF Len(ws) > 0 THEN CombineFrom_Greater(ws, 1, CRITICAL)
                          ELSE UNSPECIFIED,
     writers |-> ws]

NewTeeWriter(ws) ==
    [combinedMinLevel |-> IF Len(ws) > 0 THEN CombineFrom(ws, 1, CRITICAL)
                          ELSE UNSPECIFIED,
     writers |-> ws]

\* TeeWriter.MinLogLevel
TeeMinLogLevel(tw) == tw.combinedMinLevel

\* The loop of TeeWriter.Write from writer i on: what each sink receives, in
\* the order of the calls.
RECURSIVE TeeWriteFrom(_, _, _)
TeeWriteFrom(tw, rec, i) ==
    IF i > Len(tw.writers) THEN <<>>
    ELSE LET w == tw.writers[i]
             skip == w.kind # "minLevel"
                        \/ ~IsLevelEnabled(WriterMinLogLevel(w), rec.Level)
             got == SinkWrite(w, rec)
         IN (IF skip THEN <<>>
             ELSE [j \in 1..Len(got) |-> [sink |-> i, rec |-> got[j]]])
            \o TeeWriteFrom(tw, rec, i + 1)

\* Write without the test of the level: every MinLevelWriter is written to.
TeeWrite_NoFilter(tw, rec) ==
    LET idx == SelectSeq([i \in 1..Len(tw.writers) |-> i],
                         LAMBDA i : tw.writers[i].kind = "minLevel")
    IN [j \in 1..Len(idx) |-> [sink |-> idx[j], rec |-> rec]]

TeeWrite(tw, rec) == TeeWriteFrom(tw, rec, 1)

\* WriteRecord with < for <=.
StdioWriteRecord_Less(rec) ==
    IF rec.Level < INFO
    THEN [out |-> <<rec>>, err |-> <<>>]
    ELSE [out |-> <<>>, err |-> <<rec>>]

\* WriteRecord with >= for <=.
StdioWriteRecord_Geq(rec) ==
    IF rec.Level >= INFO
    THEN [out |-> <<rec>>, err |-> <<>>]
    ELSE [out |-> <<>>, err |-> <<rec>>]

\* StdioWriter.WriteRecord: what Out and Err receive.
StdioWriteRecord(rec) ==
    IF rec.Level <= INFO
    THEN [out |-> <<rec>>, err |-> <<>>]
    ELSE [out |-> <<>>, err |-> <<rec>>]

\* The registry of a program that only uses writers.
RegistryIdle ==
    /\ rootLevel = ZeroModules.rootLevel
    /\ regDefault = ZeroModules.defaultLevel
    /\ all = ZeroModules.all
    /\ mapId = ZeroModules.mapId
    /\ heap = ZeroModules.heap
    /\ cfg = EmptyMap
    /\ hasCfg = FALSE
    /\ last = [op |-> "none"]

InitW == RegistryIdle /\ WritersIdle /\ ThreadsIdle

\* NewTeeWriter(ws...)
NewTee(ws) ==
    /\ tee' = NewTeeWriter(ws)
    /\ wout' = [op |-> "newTee"]
    /\ UNCHANGED <<writers, vars, cvars>>

\* TeeWriter.Write(rec) on the TeeWriter built last
TeeWriteCall(rec) ==
    /\ wout' = [op |-> "teeWrite", rec |-> rec, got |-> TeeWrite(tee, rec)]
    /\ UNCHANGED <<tee, writers, vars, cvars>>

\* NewMinLevelWriter(sink, f).WriteRecord(rec), then MinLogLevel()
MinLevelWriteCall(f, rec) ==
    /\ wout' = [op |-> "minLevelWrite", floor |-> f, rec |-> rec,
                got |-> MinLevelWriteRecord(MinLevelSink(f), rec),
                minLogLevel |-> WriterMinLogLevel(MinLevelSink(f))]
    /\ UNCHANGED <<tee, writers, vars, cvars>>

\* StdioWriter.WriteRecord(rec)
StdioWriteCall(rec) ==
    /\ wout' = [op |-> "stdioWrite", rec |-> rec,
                out |-> StdioWriteRecord(rec).out,
                err |-> StdioWriteRecord(rec).err]
    /\ UNCHANGED <<tee, writers, vars, cvars>>

NextW ==
    \/ \E ws \in WriterLists : NewTee(ws)
    \/ \E rec \in Records : TeeWriteCall(rec)
    \/ \E f \in Levels, rec \in Records : MinLevelWriteCall(f, rec)
    \/ \E rec \in Records : StdioWriteCall(rec)

SpecW == InitW /\ [][NextW]_<<vars, wvars, cvars>>

\* ------------------------------------------- the registry of writers ----
MaxWriters == 3

WriterNames == {defaultWriterName, "logfile", "warning", "A", "B"}

RegisterNameInputs == {defaultWriterName, "A", "B"}

RegisterLevelInputs == {UNSPECIFIED, WARNING}

DispatchLevels == {DEBUG, WARNING, ERROR}

Position(ws, name) ==
    IF \E i \in DOMAIN ws : ws[i].name = name
    THEN CHOOSE i \in DOMAIN ws : ws[i].name = name
    ELSE 0

\* RegisterWriter with the new entry ahead of the others.
RegisterWriter_First(ws, name, sink, minLevel) ==
    IF Position(ws, name) # 0
    THEN [ws |-> ws, err |-> "DuplicateName"]
    ELSE [ws |-> <<[name |-> name, sink |-> sink, minLevel |-> minLevel]>> \o ws,
          err |-> "nil"]

\* RegisterWriter(name, writer, minLevel): fails for a name that is
\* registered, else adds the entry after the others.
RegisterWriter(ws, name, sink, minLevel) ==
    IF Position(ws, name) # 0
    THEN [ws |-> ws, err |-> "DuplicateName"]
    ELSE [ws |-> Append(ws, [name |-> name, sink |-> sink, minLevel |-> minLevel]),
          err |-> "nil"]

\* RemoveWriter(name): takes the entry out, or fails for an unknown name.
RemoveWriter(ws, name) ==
    IF Position(ws, name) = 0
    THEN [ws |-> ws, err |-> "NotFound"]
    ELSE [ws |-> SelectSeq(ws, LAMBDA e : e.name # name), err |-> "nil"]

\* ReplaceDefaultWriter(writer): swaps the sink of the default entry where
\* it stands and returns the sink it held.
ReplaceDefaultWriter(ws, sink) ==
    LET i == Position(ws, defaultWriterName)
    IN IF i = 0
       THEN [ws |-> ws, old |-> "nil", err |-> "NotFound"]
       ELSE [ws |-> [ws EXCEPT ![i].sink = sink], old |-> ws[i].sink, err |-> "nil"]

\* The dispatch of a record: the sinks written to, in the order of the
\* writes.
WriteToWriters(ws, rec) ==
    LET on == SelectSeq(ws, LAMBDA e : IsLevelEnabled(e.minLevel, rec.Level))
    IN [j \in 1..Len(on) |-> [name |-> on[j].name, sink |-> on[j].sink, rec |-> rec]]

Register(name, minLevel) ==
    LET r == RegisterWriter(writers, name, "w", minLevel)
    IN /\ Len(r.ws) <= MaxWriters
       /\ writers' = r.ws
       /\ wout' = [op |-> "register", name |-> name, err |-> r.err]
       /\ UNCHANGED <<tee, vars, cvars>>

Remove(name) ==
    LET r == RemoveWriter(writers, name)
    IN /\ writers' = r.ws
       /\ wout' = [op |-> "remove", name |-> name, err |-> r.err]
       /\ UNCHANGED <<tee, vars, cvars>>

ReplaceDefault ==
    LET r == ReplaceDefaultWriter(writers, "replaced")
    IN /\ writers' = r.ws
       /\ wout' = [op |-> "replaceDefault", old |-> r.old, err |-> r.err]
       /\ UNCHANGED <<tee, vars, cvars>>

Dispatch(rec) ==
    /\ wout' = [op |-> "dispatch", rec |-> rec, got |-> WriteToWriters(writers, rec)]
    /\ UNCHANGED <<tee, writers, vars, cvars>>

\* Log.Start: the writers after it and its error.  An error of the first
\* registration returns before the rest; the removal's error is dropped.
StartWriters(ws, hasPath, showLog) ==
    LET r1 == IF hasPath THEN RegisterWriter(ws, "logfile", "logfile", TRACE)
              ELSE [ws |-> ws, err |-> "nil"]
        r2 == IF showLog THEN ReplaceDefaultWriter(r1.ws, "ctx.Stderr")
              ELSE RegisterWriter(RemoveWriter(r1.ws, defaultWriterName).ws,
                                  "warning", "simple", WARNING)
    IN IF r1.err # "nil" THEN r1 ELSE [ws |-> r2.ws, err |-> r2.err]

\* Log.Start with an empty Config: the writers, then the level of the root
\* logger.
Start(hasPath, showLog0, debug) ==
    LET showLog == showLog0 \/ debug
        level == IF debug THEN DEBUG ELSE IF showLog0 THEN INFO ELSE WARNING
        r == StartWriters(writers, hasPath, showLog)
        g == get(CurReg, rootModuleName)
    IN /\ Len(r.ws) <= MaxWriters
       /\ writers' = r.ws
       /\ wout' = [op |-> "start", err |-> r.err]
       /\ IF r.err = "nil"
          THEN /\ rootLevel' = g.m.rootLevel
               /\ regDefault' = g.m.defaultLevel
               /\ all' = g.m.all
               /\ mapId' = g.m.mapId
               /\ heap' = SetLogLevel(g.m.heap, g.impl, level)
               /\ last' = [op |-> "setLevel", ptr |-> g.impl, level |-> level]
               /\ UNCHANGED <<cfg, hasCfg>>
          ELSE UNCHANGED vars
       /\ UNCHANGED <<tee, cvars>>

NextD ==
    \/ \E name \in RegisterNameInputs, minLevel \in RegisterLevelInputs :
          Register(name, minLevel)
    \/ \E name \in WriterNames : Remove(name)
    \/ ReplaceDefault
    \/ \E level \in DispatchLevels : Dispatch([Level |-> level, Message |-> "m"])
    \/ \E hasPath, showLog, debug \in BOOLEAN : Start(hasPath, showLog, debug)

SpecD == InitW /\ [][NextD]_<<vars, wvars, cvars>>

\* ------------------------------------- the calls, statement by statement --
\* The names of the concurrent callers: two names with the same absent
\* parent, one of them also in capitals.
ConcNameInputs == { <<"a", ".", "b">>, <<"a", ".", "c">>, <<"A", ".", "B">> }

\* The names of the walks: empty, the alias of the root, lone, leading,
\* trailing and doubled dots.
WalkNameInputs ==
    { <<>>, rootName, <<".">>, <<".", "a">>, <<"a", ".">>,
      <<"a", ".", ".", "b">>, <<"a", ".", "b">>,
      <<"<", "r", "o", "o", "t", ">", ".", "a">> }

\* A mutex that never makes its caller wait.
MutexFree_Always(holder) == TRUE

\* sync.Mutex.Lock returns only when no thread holds the mutex.
MutexFree(holder) == holder = 0

\* The parent name cut one character late: the dot is kept.
parentNameOf_KeepDot(name) ==
    LET i == LastIndex(name)
    IN IF i >= 0 THEN SubSeq(name, 1, i + 1) ELSE rootModuleName

\* resolveUnlocked: the name of the parent.
parentNameOf(name) ==
    LET i == LastIndex(name)
    IN IF i >= 0 THEN SubSeq(name, 1, i) ELSE rootModuleName

Top(t) == thr[t].stack[Len(thr[t].stack)]

Popped(t) == SubSeq(thr[t].stack, 1, Len(thr[t].stack) - 1)

\* The position after a frame of resolveUnlocked has returned.
AfterReturn(t) == IF Len(thr[t].stack) = 1 THEN "unlock" ELSE "resolve"

RegistryUnchanged == UNCHANGED <<rootLevel, regDefault, all, mapId, heap>>

Others == UNCHANGED <<cfg, hasCfg, last, wvars>>

\* A thread calls get(name), config() or resetLevels().
Call(t, op, arg) ==
    /\ thr[t].pc \in {"idle", "done"}
    /\ thr' = [thr EXCEPT ![t] = [IdleThread EXCEPT !.pc = "lock", !.op = op,
                                                    !.arg = arg]]
    /\ RegistryUnchanged /\ UNCHANGED mu /\ Others

\* m.mu.Lock()
Lock(t) ==
    /\ thr[t].pc = "lock"
    /\ MutexFree(mu)
    /\ mu' = t
    /\ thr' = [thr EXCEPT ![t].pc = "locked", ![t].m0 = CurReg]
    /\ RegistryUnchanged /\ Others

\* get: m.maybeInitUnlocked(); name = strings.ToLower(name); the call of
\* resolveUnlocked(name).
GetInit(t) ==
    /\ thr[t].pc = "locked" /\ thr[t].op = "get"
    /\ Store(maybeInitUnlocked(CurReg))
    /\ thr' = [thr EXCEPT ![t].pc = "resolve",
                          ![t].stack = <<[name |-> ToLower(thr[t].arg), pc |-> "enter"]>>]
    /\ UNCHANGED mu /\ Others

\* resolveUnlocked from its entry to its first return or to its call of
\* itself for the parent.
ResolveEnter(t) ==
    /\ thr[t].pc = "resolve" /\ Top(t).pc = "enter"
    /\ LET name == IF Top(t).name = rootName THEN rootModuleName ELSE Top(t).name
       IN IF name \in DOMAIN all
          THEN thr' = [thr EXCEPT ![t].stack = Popped(t), ![t].ret = all[name],
                                  ![t].pc = AfterReturn(t)]
          ELSE thr' = [thr EXCEPT ![t].stack =
                          Popped(t) \o <<[name |-> name, pc |-> "link"],
                                         [name |-> parentNameOf(name), pc |-> "enter"]>>]
    /\ RegistryUnchanged /\ UNCHANGED mu /\ Others

\* resolveUnlocked after the parent is resolved: newSubmodule, m.all[name] =
\* impl, return impl.
ResolveLink(t) ==
    /\ thr[t].pc = "resolve" /\ Top(t).pc = "link"
    /\ LET impl == Len(heap) + 1
       IN /\ heap' = Append(heap, newSubmodule(Top(t).name, thr[t].ret, regDefault))
          /\ all' = (Top(t).name :> impl) @@ all
          /\ thr' = [thr EXCEPT ![t].stack = Popped(t), ![t].ret = impl,
                                ![t].pc = AfterReturn(t)]
    /\ UNCHANGED <<rootLevel, regDefault, mapId, mu>> /\ Others

\* config between Lock and Unlock.
ConfigBody(t) ==
    /\ thr[t].pc = "locked" /\ thr[t].op = "config"
    /\ Store(config(CurReg).m)
    /\ thr' = [thr EXCEPT ![t].pc = "unlock"]
    /\ UNCHANGED mu /\ Others

\* resetLevels between Lock and Unlock.
ResetBody(t) ==
    /\ thr[t].pc = "locked" /\ thr[t].op = "resetLevels"
    /\ Store(resetLevels(CurReg))
    /\ thr' = [thr EXCEPT ![t].pc = "unlock"]
    /\ UNCHANGED mu /\ Others

\* The deferred m.mu.Unlock() and the return.
Unlock(t) ==
    /\ thr[t].pc = "unlock"
    /\ mu' = 0
    /\ thr' = [thr EXCEPT ![t].pc = "done"]
    /\ RegistryUnchanged /\ Others

NextConc ==
    \E t \in Threads :
        \/ \E name \in ConcNameInputs : Call(t, "get", name)
        \/ Call(t, "config", <<>>)
        \/ Call(t, "resetLevels", <<>>)
        \/ Lock(t)
        \/ GetInit(t)
        \/ ResolveEnter(t)
        \/ ResolveLink(t)
        \/ ConfigBody(t)
        \/ ResetBody(t)
        \/ Unlock(t)

SpecConc == InitSpec /\ [][NextConc]_<<vars, wvars, cvars>>

\* One thread and its calls of get; a call is made while its nodes fit.
WalkCall(name) ==
    /\ Len(get(CurReg, name).m.heap) <= MaxNodes
    /\ Call(1, "get", name)

WalkStep == Lock(1) \/ GetInit(1) \/ ResolveEnter(1) \/ ResolveLink(1) \/ Unlock(1)

NextWalk ==
    \/ \E name \in WalkNameInputs : WalkCall(name)
    \/ Lock(1)
    \/ GetInit(1)
    \/ ResolveEnter(1)
    \/ ResolveLink(1)
    \/ Unlock(1)

\* The thread that is in a call goes on running.
SpecWalk ==
    InitSpec /\ [][NextWalk]_<<vars, wvars, cvars>>
        /\ WF_<<vars, wvars, cvars>>(WalkStep)

\* ------------------------------------------------ terms of the claims ----
\* The name cut at its last dot; the empty name when it has no dot.
RECURSIVE CutAtLastDot(_)
CutAtLastDot(s) ==
    IF Len(s) = 0 THEN <<>>
    ELSE IF s[Len(s)] = "." THEN SubSeq(s, 1, Len(s) - 1)
    ELSE CutAtLastDot(SubSeq(s, 1, Len(s) - 1))

\* The key under which a name is looked up: the root alias and the empty
\* name both designate the root.
KeyOfName(n) == IF n = rootName THEN <<>> ELSE n

ParentKey(k) == KeyOfName(CutAtLastDot(k))

Initialized == mapId # 0

Nodes == Range(all)

RootPtr == all[<<>>]

Eff(p) == EffectiveLogLevel(heap, p)

\* The own level of the nearest registered name, from k towards the root by
\* cutting at the last dot, that is not UNSPECIFIED; -2 if the walk leaves
\* the registry.
RECURSIVE NearestByName(_)
NearestByName(k) ==
    IF k \notin DOMAIN all THEN -2
    ELSE IF heap[all[k]].level # UNSPECIFIED THEN heap[all[k]].level
    ELSE IF k = <<>> THEN -2
    ELSE NearestByName(ParentKey(k))

\* x is p or an ancestor of p by parent links.
RECURSIVE OnChain(_, _, _)
OnChain(h, p, x) ==
    IF p = 0 THEN FALSE
    ELSE IF p = x THEN TRUE
    ELSE OnChain(h, h[p].parent, x)

Depth(p) == Cardinality({x \in DOMAIN heap : OnChain(heap, p, x)})

\* ------------------------------------------------------------ claims ----
NameA == <<"a">>
NameAB == <<"a", ".", "b">>
NameABC == <<"a", ".", "b", ".", "c">>

\* C1: the effective level of every registered node is the own level of the
\* nearest name on its chain (the name, the name cut at its last dot, ...,
\* the root) whose own level is not UNSPECIFIED, and right after
\* SetLogLevel(x, l) with l not UNSPECIFIED the effective level of x is l.
C1_EffectiveIsNearest ==
    /\ \A k \in DOMAIN all :
          /\ Eff(all[k]) = NearestByName(k)
          /\ Eff(all[k]) \in Levels \ {UNSPECIFIED}
    /\ (last.op = "setLevel" /\ last.level # UNSPECIFIED)
          => Eff(last.ptr) = last.level

\* A level was just set on a node two below the root whose parent holds
\* another level of its own.
C1_Witness ==
    /\ last.op = "setLevel"
    /\ last.level = DEBUG
    /\ Depth(last.ptr) = 3
    /\ heap[heap[last.ptr].parent].level = WARNING
    /\ Eff(last.ptr) = DEBUG

\* C2: get returns the node registered under the lowercased name (the root
\* for the root alias); every name that differs from the one just asked for
\* only in letter case, or is the other designation of the root, would
\* return that same node; and no step changes the node that get returns for
\* a registered key, which is the lowercase spelling of its names.
C2_Returned ==
    (last.op = "get") =>
        /\ last.impl \in Nodes
        /\ KeyOfName(ToLower(last.name)) \in DOMAIN all
        /\ all[KeyOfName(ToLower(last.name))] = last.impl
        /\ \A n \in NameInputs :
              KeyOfName(ToLower(n)) = KeyOfName(ToLower(last.name))
                  => get(CurReg, n).impl = last.impl

\* The registry at the end of a step.
RegAfter == Reg(rootLevel', regDefault', all', mapId', heap')

C2_Stable ==
    \A k \in DOMAIN all : get(RegAfter, k).impl = get(CurReg, k).impl

C2_GetIdempotent == []C2_Returned /\ [][C2_Stable]_vars

\* get was just called with an uppercase spelling of a name whose node
\* holds a level set through it earlier.
C2_Witness ==
    /\ last.op = "get"
    /\ last.name = <<"A", ".", "B">>
    /\ heap[last.impl].level = DEBUG
    /\ heap[last.impl].name = NameAB

\* C3: every registered node but the root is linked to the node registered
\* under its name cut at the last dot (the root when there is no dot, or
\* when what is left designates the root), parent links lead to the root,
\* and get("a.b.c") on a registry with no node but the root leaves exactly
\* root, a, a.b and a.b.c.
C3_Closed ==
    /\ Initialized => <<>> \in DOMAIN all /\ heap[RootPtr].parent = 0
    /\ \A k \in DOMAIN all \ {<<>>} :
          /\ ParentKey(k) \in DOMAIN all
          /\ heap[all[k]].parent = all[ParentKey(k)]
          /\ heap[all[k]].name = k
          /\ OnChain(heap, all[k], RootPtr)
    /\ \A k1, k2 \in DOMAIN all : all[k1] = all[k2] => k1 = k2
    /\ Initialized => Nodes = DOMAIN heap

C3_Example ==
    (DOMAIN all \subseteq {<<>>} /\ last'.op = "get" /\ last'.name = NameABC)
        => /\ DOMAIN all' = {<<>>, NameA, NameAB, NameABC}
           /\ Cardinality(DOMAIN heap') = 4

C3_ParentClosed == []C3_Closed /\ [][C3_Example]_vars

\* get("a.b.c") has just built the chain of four nodes.
C3_Witness ==
    /\ last.op = "get"
    /\ last.name = NameABC
    /\ DOMAIN all = {<<>>, NameA, NameAB, NameABC}
    /\ Depth(last.impl) = 4

\* C4: the own level of the root is never UNSPECIFIED.
C4_RootSpecified ==
    /\ Initialized => heap[RootPtr].level # UNSPECIFIED
    /\ \A p \in DOMAIN heap : heap[p].parent = 0 => heap[p].level # UNSPECIFIED

\* UNSPECIFIED was just set on the root.
C4_Witness ==
    /\ last.op = "setLevel"
    /\ last.ptr = RootPtr
    /\ last.level = UNSPECIFIED

\* C5: a node that get has just created has the effective level of its
\* parent, and SetLogLevel on x changes the effective level of no node that
\* is neither x nor below x.
C5_Inherits ==
    (last'.op = "get") =>
        \A p \in DOMAIN heap' \ DOMAIN heap :
            heap'[p].parent # 0 =>
                /\ EffectiveLogLevel(heap', p) = EffectiveLogLevel(heap', heap'[p].parent)
                /\ heap'[p].parent \in DOMAIN heap =>
                      EffectiveLogLevel(heap', p) = Eff(heap'[p].parent)

C5_Frame ==
    (last'.op = "setLevel") =>
        \A p \in DOMAIN heap :
            ~OnChain(heap, p, last'.ptr) => EffectiveLogLevel(heap', p) = Eff(p)

C5_InheritAndFrame == [][C5_Inherits /\ C5_Frame]_vars

\* a holds WARNING, a.b holds DEBUG set after it was created, and the root
\* holds neither.
C5_Witness ==
    /\ last.op = "setLevel"
    /\ last.level = DEBUG
    /\ NameAB \in DOMAIN all
    /\ last.ptr = all[NameAB]
    /\ heap[all[NameA]].level = WARNING
    /\ Eff(all[NameA]) = WARNING
    /\ Eff(all[NameAB]) = DEBUG
    /\ heap[RootPtr].level = ERROR

\* C6: a config() that follows resetLevels() at once returns exactly one
\* entry, the root's.
C6_ResetThenConfig ==
    (last.op = "resetLevels") =>
        \A c \in config(CurReg).cfgs :
            /\ DOMAIN c = {rootName}
            /\ c[rootName] = config(CurReg).m.heap[config(CurReg).m.all[<<>>]].level

\* The levels of a registry with three nodes below the root were just reset.
C6_Witness ==
    /\ last.op = "resetLevels"
    /\ Cardinality(DOMAIN all) = 4
    /\ \A c \in config(CurReg).cfgs : DOMAIN c = {rootName}

C8_FirstCallInitializes ==
    (last.op \in {"get", "config", "resetLevels"}) =>
        /\ Initialized
        /\ <<>> \in DOMAIN all
        /\ mapId = 1
        /\ Cardinality({p \in DOMAIN heap : heap[p].name = rootName}) = 1

\* C9: the configuration that config returns has exactly one entry for each
\* registered node whose own level is not UNSPECIFIED, holding that level,
\* the root's among them; and a step that changes a configuration the caller
\* keeps is no registry call and leaves the registry as it is, so that no
\* registry call changes it.
C9_Entries ==
    (last.op = "config") =>
        LET own == {p \in Nodes : heap[p].level # UNSPECIFIED}
        IN /\ DOMAIN last.cfg = {heap[p].name : p \in own}
           /\ Cardinality(DOMAIN last.cfg) = Cardinality(own)
           /\ \A p \in own : last.cfg[heap[p].name] = heap[p].level
           /\ rootName \in DOMAIN last.cfg

C9_Copy ==
    (hasCfg /\ cfg' # cfg) =>
        UNCHANGED <<rootLevel, regDefault, all, mapId, heap, last>>

C9_Snapshot == []C9_Entries /\ [][C9_Copy]_vars

\* config has returned a configuration that leaves out a.b, which inherits,
\* while the caller keeps an earlier one that still has it.
C9_Witness ==
    /\ last.op = "config"
    /\ hasCfg
    /\ NameAB \in DOMAIN all
    /\ heap[all[NameAB]].level = UNSPECIFIED
    /\ NameAB \in DOMAIN cfg
    /\ NameAB \notin DOMAIN last.cfg
    /\ NameA \in DOMAIN last.cfg

\* C10: resetLevels sets the own level of the root to the configured root
\* level and of every other node to the configured default level; no step
\* removes a node, renames it, links it to another parent or registers
\* another node under its key; and get changes the own level of no node
\* that existed before.
C10_Reset ==
    (last'.op = "resetLevels") =>
        \A p \in Nodes :
            heap'[p].level = IF p = RootPtr THEN rootLevel ELSE regDefault

C10_Structure ==
    /\ \A p \in DOMAIN heap :
          /\ p \in DOMAIN heap'
          /\ heap'[p].name = heap[p].name
          /\ heap'[p].parent = heap[p].parent
    /\ \A k \in DOMAIN all : k \in DOMAIN all' /\ all'[k] = all[k]

C10_GetFrame ==
    (last'.op = "get") =>
        \A p \in DOMAIN heap : heap'[p].level = heap[p].level

SeverityOrder == <<TRACE, DEBUG, INFO, WARNING, ERROR, CRITICAL>>

ConcreteLevels == {SeverityOrder[i] : i \in DOMAIN SeverityOrder}

\* The place of a level in that order; UNSPECIFIED is no severity and
\* stands below them all.
Rank(l) ==
    IF l = UNSPECIFIED THEN 0
    ELSE CHOOSE i \in DOMAIN SeverityOrder : SeverityOrder[i] = l

\* A floor admits a level when it is UNSPECIFIED or the level is at least
\* as severe.
Admits(f, l) == f = UNSPECIFIED \/ Rank(l) >= Rank(f)

Sinks == DOMAIN tee.writers

Exposing(i) == tee.writers[i].kind = "minLevel"

Floor(i) == tee.writers[i].level

\* The sinks that received something in the last TeeWriter.Write.
Reached == {wout.got[j].sink : j \in DOMAIN wout.got}

\* C11: TeeWriter.Write hands the record, as it is, to its sinks in the
\* order they were given, at most once each, to a floor-exposing sink iff
\* its floor admits the level of the record and to every opaque sink.
C11_TeeDelivers ==
    (wout.op = "teeWrite") =>
        /\ \A j \in DOMAIN wout.got : wout.got[j].rec = wout.rec
        /\ \A j, k \in DOMAIN wout.got : j < k => wout.got[j].sink < wout.got[k].sink
        /\ Reached = {i \in Sinks : ~Exposing(i) \/ Admits(Floor(i), wout.rec.Level)}

\* C12: the combined floor of a TeeWriter is UNSPECIFIED for no writers,
\* for a list with an opaque writer anywhere and for a list with an
\* UNSPECIFIED floor; otherwise it is the least severe of the floors; and no
\* write changes it.
C12_Combined ==
    LET c == TeeMinLogLevel(tee)
        floors == {Floor(i) : i \in Sinks}
    IN /\ Sinks = {} => c = UNSPECIFIED
       /\ (\E i \in Sinks : ~Exposing(i)) => c = UNSPECIFIED
       /\ (Sinks # {} /\ \A i \in Sinks : Exposing(i)) =>
             /\ UNSPECIFIED \in floors => c = UNSPECIFIED
             /\ UNSPECIFIED \notin floors =>
                   /\ c \in floors
                   /\ \A f \in floors : Rank(c) <= Rank(f)

C12_Fixed == (wout'.op # "newTee") => tee' = tee

C12_CombinedFloor == []C12_Combined /\ [][C12_Fixed]_<<vars, wvars, cvars>>

\* A TeeWriter of floors WARNING and INFO reports INFO after a write.
C12_Witness ==
    /\ wout.op = "teeWrite"
    /\ tee.writers = <<MinLevelSink(WARNING), MinLevelSink(INFO)>>
    /\ TeeMinLogLevel(tee) = INFO

\* C13: StdioWriter.WriteRecord hands every record to exactly one of Out and
\* Err: to Out at INFO, DEBUG and TRACE, to Err at WARNING, ERROR and
\* CRITICAL.
C13_StdioSplit ==
    (wout.op = "stdioWrite") =>
        /\ Len(wout.out) + Len(wout.err) = 1
        /\ wout.rec.Level \in {INFO, DEBUG, TRACE} => wout.out = <<wout.rec>>
        /\ wout.rec.Level \in {WARNING, ERROR, CRITICAL} => wout.err = <<wout.rec>>

\* An INFO record was just written to Out alone.
C13_Witness ==
    /\ wout.op = "stdioWrite"
    /\ wout.rec.Level = INFO
    /\ wout.out = <<wout.rec>>
    /\ wout.err = <<>>

\* C15, as claimed: a lower number is a higher severity, CRITICAL is the
\* smallest level, and the comparisons of NewTeeWriter and of
\* StdioWriter.WriteRecord follow that order.
C15_Agreement ==
    /\ (wout.op = "stdioWrite") =>
          (wout.out # <<>> <=> Rank(wout.rec.Level) <= Rank(INFO))
    /\ (Sinks # {} /\ \A i \in Sinks : Exposing(i)) =>
          \A l \in ConcreteLevels :
              (\E i \in Sinks : Admits(Floor(i), l))
                  => Admits(TeeMinLogLevel(tee), l)

C15_LowerIsMoreSevere ==
    /\ \A l1, l2 \in ConcreteLevels : (l1 < l2) <=> (Rank(l1) > Rank(l2))
    /\ \A l \in ConcreteLevels : CRITICAL <= l
    /\ C15_Agreement

\* C15, amended: a higher number is a higher severity, CRITICAL is the
\* largest level and UNSPECIFIED is below every level; StdioWriter sends to
\* Out exactly the records that are not more severe than INFO, and the
\* combined floor of floor-exposing writers admits every level that one of
\* their floors admits.
C15_HigherIsMoreSevere ==
    /\ \A l1, l2 \in ConcreteLevels : (l1 < l2) <=> (Rank(l1) < Rank(l2))
    /\ \A l \in ConcreteLevels : UNSPECIFIED < l /\ l <= CRITICAL
    /\ C15_Agreement

\* A WARNING record went to Err while the TeeWriter holds the floors CRITICAL
\* and DEBUG and reports DEBUG.
C15_Witness ==
    /\ wout.op = "stdioWrite"
    /\ wout.rec.Level = WARNING
    /\ wout.err = <<wout.rec>>
    /\ tee.writers = <<MinLevelSink(CRITICAL), MinLevelSink(DEBUG)>>
    /\ TeeMinLogLevel(tee) = DEBUG

\* C16: a minLevelWriter of floor f hands a record, as it is and once, to
\* the writer it wraps iff f is UNSPECIFIED or the level of the record is
\* at least as severe as f, and not at all otherwise; MinLogLevel returns f.
C16_MinLevelFilter ==
    (wout.op = "minLevelWrite") =>
        /\ Admits(wout.floor, wout.rec.Level) => wout.got = <<wout.rec>>
        /\ ~Admits(wout.floor, wout.rec.Level) => wout.got = <<>>
        /\ wout.minLogLevel = wout.floor

\* A DEBUG record was just dropped by a filter of floor WARNING.
C16_Witness ==
    /\ wout.op = "minLevelWrite"
    /\ wout.floor = WARNING
    /\ wout.rec.Level = DEBUG
    /\ wout.got = <<>>

\* C19: a record whose level the combined floor of the TeeWriter does not
\* admit reaches none of its sinks.
C19_FloorSound ==
    (wout.op = "teeWrite" /\ ~Admits(TeeMinLogLevel(tee), wout.rec.Level))
        => wout.got = <<>>

\* A DEBUG record was written to a TeeWriter of floors WARNING and INFO.
C19_Witness ==
    /\ wout.op = "teeWrite"
    /\ tee.writers = <<MinLevelSink(WARNING), MinLevelSink(INFO)>>
    /\ wout.rec.Level = DEBUG
    /\ wout.got = <<>>

\* The names of the registered writers, in their order.
WriterNamesOf(ws) == [i \in DOMAIN ws |-> ws[i].name]

\* C14: a dispatch writes the record to the registered writers whose floor
\* is UNSPECIFIED or admits its level, each once, in the order of the
\* registrations, and to no other writer; registering adds after the
\* writers there are, and removing and replacing the default writer keep
\* the order of the others.
C14_Dispatched ==
    (wout.op = "dispatch") =>
        /\ \A j \in DOMAIN wout.got :
              /\ wout.got[j].rec = wout.rec
              /\ Position(writers, wout.got[j].name) # 0
              /\ wout.got[j].sink = writers[Position(writers, wout.got[j].name)].sink
        /\ \A j, k \in DOMAIN wout.got :
              j < k => Position(writers, wout.got[j].name)
                          < Position(writers, wout.got[k].name)
        /\ {wout.got[j].name : j \in DOMAIN wout.got}
              = {writers[i].name : i \in {i \in DOMAIN writers :
                                             Admits(writers[i].minLevel, wout.rec.Level)}}

C14_Order ==
    /\ (wout'.op = "register" /\ wout'.err = "nil") =>
          /\ Len(writers') = Len(writers) + 1
          /\ \A i \in DOMAIN writers : writers'[i] = writers[i]
          /\ writers'[Len(writers')].name = wout'.name
    /\ (wout'.op = "register" /\ wout'.err # "nil") => writers' = writers
    /\ (wout'.op = "remove") =>
          writers' = SelectSeq(writers, LAMBDA e : e.name # wout'.name)
    /\ (wout'.op = "replaceDefault") =>
          /\ WriterNamesOf(writers') = WriterNamesOf(writers)
          /\ \A i \in DOMAIN writers :
                writers'[i].minLevel = writers[i].minLevel
    /\ (wout'.op = "dispatch") => writers' = writers
    /\ \A i, j \in DOMAIN writers' : i # j => writers'[i].name # writers'[j].name

InCall(t) == thr[t].pc \in {"locked", "resolve", "unlock"}

\* The key under which get(arg) registers.
KeyOfArg(t) == KeyOfName(ToLower(thr[t].arg))

Returned(t) == thr[t].pc = "done" /\ thr[t].op = "get"

\* C17: at most one thread is between Lock and Unlock of the registry, and
\* it holds the mutex; each call leaves what it would leave run alone on the
\* registry it found; no two nodes have one name; a get that has returned
\* holds the node registered under its name, so two callers of one name
\* hold one node; and config and resetLevels start on a registry where
\* every child's parent is registered.
C17_Exclusive ==
    /\ \A t1, t2 \in Threads : InCall(t1) /\ InCall(t2) => t1 = t2
    /\ \A t \in Threads : InCall(t) => mu = t
    /\ \A p, q \in DOMAIN heap : heap[p].name = heap[q].name => p = q
    /\ \A t \in Threads :
          Returned(t) => /\ KeyOfArg(t) \in DOMAIN all
                         /\ thr[t].ret = all[KeyOfArg(t)]
    /\ \A t1, t2 \in Threads :
          (Returned(t1) /\ Returned(t2) /\ KeyOfArg(t1) = KeyOfArg(t2))
              => thr[t1].ret = thr[t2].ret
    /\ \A t \in Threads :
          (thr[t].pc = "locked" /\ thr[t].op \in {"config", "resetLevels"}) =>
              \A k \in DOMAIN all \ {rootModuleName} :
                  /\ ParentKey(k) \in DOMAIN all
                  /\ heap[all[k]].parent = all[ParentKey(k)]
    /\ \A t \in Threads :
          thr[t].pc = "unlock" =>
              /\ thr[t].op = "get" =>
                    /\ CurReg = get(thr[t].m0, thr[t].arg).m
                    /\ thr[t].ret = get(thr[t].m0, thr[t].arg).impl
              /\ thr[t].op = "config" => CurReg = config(thr[t].m0).m
              /\ thr[t].op = "resetLevels" => CurReg = resetLevels(thr[t].m0)

\* get("a.b") and get("a.c") have both returned, and their nodes have the
\* one node of "a" for parent.
C17_Witness ==
    /\ Returned(1) /\ thr[1].arg = NameAB
    /\ Returned(2) /\ thr[2].arg = <<"a", ".", "c">>
    /\ thr[1].ret # thr[2].ret
    /\ heap[thr[1].ret].parent = heap[thr[2].ret].parent
    /\ heap[thr[1].ret].parent = all[NameA]
    /\ Len(heap) = 4

\* C18: a get that has returned holds the node of its name and has released
\* the mutex; a thread about to lock does not hold the mutex; the frames of
\* resolveUnlocked run under the mutex, each for a name shorter than the
\* one that called it or for the key of the root, which is registered; and
\* every get that is called returns.
C18_Walk ==
    /\ Returned(1) =>
          /\ mu = 0
          /\ thr[1].ret \in DOMAIN heap
          /\ KeyOfArg(1) \in DOMAIN all
          /\ all[KeyOfArg(1)] = thr[1].ret
          /\ KeyOfName(heap[thr[1].ret].name) = KeyOfArg(1)
    /\ thr[1].pc = "lock" => mu # 1
    /\ thr[1].stack # <<>> =>
          /\ mu = 1
          /\ thr[1].pc = "resolve"
          /\ rootModuleName \in DOMAIN all
    /\ \A i \in 2..Len(thr[1].stack) :
          \/ Len(thr[1].stack[i].name) < Len(thr[1].stack[i - 1].name)
          \/ thr[1].stack[i].name = rootModuleName

C18_Returns == (thr[1].pc = "lock") ~> Returned(1)

C18_GetTerminates == []C18_Walk /\ C18_Returns

\* get("a..b") has returned a node three links from the root.
C18_Witness ==
    /\ Returned(1)
    /\ thr[1].arg = <<"a", ".", ".", "b">>
    /\ mu = 0
    /\ Depth(thr[1].ret) = 4

====
